---- MODULE Spec2Model ----
(***************************************************************************)
(* Knowledge store of Cost-RAG: KnowledgeGraphService                      *)
(* (backend/app/services/knowledge_graph_service.py) writing knowledge     *)
(* nodes and relations to the relational tables (authoritative) and to the *)
(* Neo4j graph (mirror), and the four query modes reading them.            *)
(*                                                                         *)
(* Every request runs in its own coroutine with its own database session   *)
(* (db/session.py get_db); a coroutine can be suspended at every await of  *)
(* a database call, so one action below is one stretch of a handler        *)
(* between two such awaits.  The Neo4j calls are synchronous and run in    *)
(* the stretch that follows the last await before them.                    *)
(*                                                                         *)
(* The service addresses the columns user_id, type and source of the two   *)
(* tables (service lines 403-426, 496-546); the rows below carry the       *)
(* columns the service reads and writes.  Neither table declares a unique  *)
(* constraint on the upsert key (models/knowledge.py 13-80, 107-169).      *)
(***************************************************************************)
EXTENDS Integers, Sequences, FiniteSets, TLC

\* ---------------------------------------------------------------- bounds
NumUsers == 2
NumProcs == 2
MaxNodes == 3
MaxNodesConcurrent == 2
MaxRelations == 2
MaxRawWrites == 1
MaxChunks == 2
MaxPathNodes == 8
MaxCandidates == 2
MaxRelationCandidates == 3
PadWidth == 60

Users == 1..NumUsers
Procs == 1..NumProcs
NodeIds == 1..MaxNodes

\* ------------------------------------------------------- request inputs
\* Names are character sequences, so that the case-insensitive substring
\* filter of node search is computed and not assumed.
Names == {<<"a">>, <<"A", "b">>}
EntityTypes == {"material", "cost"}
RelationTypes == {"use"}

\* The (name, type) pairs requests are drawn from: two share the name, two
\* share the type.
EntityInputs ==
    {<<n, t>> \in Names \X EntityTypes : ~(n = <<"A", "b">> /\ t = "cost")}

\* (properties, confidence, source) of an EntityCreate; confidence in
\* hundredths (0.5 is the schema's default).
DefaultPayload == [properties |-> "{}", confidence |-> 50, source |-> "none"]
OtherPayload ==
    [properties |-> "{method}", confidence |-> 80, source |-> "document_1_chunk_1"]
EntityPayloads == {DefaultPayload, OtherPayload}

\* The EntityCreate requests: every owner and (name, type) with the default
\* payload, and one key also with the other payload.
NodeRequests ==
    {r \in [user_id : Users, entity : EntityInputs, payload : EntityPayloads] :
        r.payload = OtherPayload => (r.user_id = 1 /\ r.entity = <<(<<"a">>), "material">>)}

\* The RelationCreate requests: every owner and type, and the ordered pairs
\* of ids up to symmetry (the self pairs included).
RelationRequests ==
    {r \in [user_id : Users, source_node_id : NodeIds, target_node_id : NodeIds,
            type : RelationTypes] : r.source_node_id <= r.target_node_id}

NoPayload == [properties |-> "none", confidence |-> 0, source |-> "none"]
NoId == 0

VARIABLES
    nodes,       \* table knowledge_nodes: set of rows
    relations,   \* table knowledge_relations: set of rows
    neo4jNodes,  \* (:Entity) elements of the graph: a bag of property maps
    neo4jEdges,  \* relationships of the graph: a bag of property maps
    pc,          \* pc[p]: where request p stands
    call,        \* call[p]: the request's arguments, locals and response
    doc,         \* the frame of process_document_knowledge, when one runs
    merge        \* the arguments and the result of a call of one of the
                 \* extraction functions: _merge_entities, extract_entities
                 \* with the method "hybrid", _deduplicate_relations

vars == <<nodes, relations, neo4jNodes, neo4jEdges, pc, call, doc, merge>>

NoCall ==
    [op |-> "none", user_id |-> 0, name |-> <<>>, type |-> "none",
     payload |-> NoPayload, source_node_id |-> NoId, target_node_id |-> NoId,
     id |-> NoId, result |-> "none", hit |-> FALSE, mirror |-> "none"]

\* Bags as functions from elements to positive counts: CREATE adds an element
\* whether or not one with the same properties is there.
EmptyBag == <<>>
Copies(B, e) == IF e \in DOMAIN B THEN B[e] ELSE 0
BagAdd(B, e, k) ==
    IF k = 0 THEN B
    ELSE [x \in DOMAIN B \cup {e} |-> Copies(B, x) + (IF x = e THEN k ELSE 0)]
\* No document is being processed.
NoDoc ==
    [status |-> "none", stage |-> "none", proc |-> 0, user_id |-> 0,
     document_id |-> 0, chunks |-> <<>>, i |-> 0, entities |-> <<>>,
     relations |-> <<>>, j |-> 0, k |-> 0, created_nodes |-> <<>>,
     total_entities |-> 0, total_relations |-> 0, total_nodes |-> 0,
     total_edges |-> 0, error |-> "none"]

\* No merge has been asked for.
NoMerge == [rule_entities |-> <<>>, jieba_entities |-> <<>>, failed |-> "none",
            relations |-> <<>>, op |-> "none", result |-> <<>>,
            called |-> FALSE]

Init ==
    /\ nodes = {}
    /\ relations = {}
    /\ neo4jNodes = EmptyBag
    /\ neo4jEdges = EmptyBag
    /\ pc = [p \in Procs |-> "idle"]
    /\ call = [p \in Procs |-> NoCall]
    /\ doc = NoDoc
    /\ merge = NoMerge

\* ------------------------------------------------------------ UpsertNode
\* A lookup that compares the type column with the enum's name: no row ever
\* matches.
ExistingNodesTypeMismatch(user_id, name, type) ==
    {n \in nodes : n.name = name /\ n.type = "EntityType" /\ n.user_id = user_id}

\* select(KnowledgeNode).where(name == .., type == .., user_id == ..)
ExistingNodes(user_id, name, type) ==
    {n \in nodes : n.name = name /\ n.type = type /\ n.user_id = user_id}

\* An upsert that overwrites the fields of the row it found.
NodesAfterHitOverwrite(existing_node, payload) ==
    (nodes \ {existing_node}) \cup
        {[existing_node EXCEPT !.properties = payload.properties,
                               !.confidence = payload.confidence,
                               !.source = payload.source]}

\* "if existing_node: return existing_node": the table after the early return.
NodesAfterHit(existing_node, payload) == nodes

\* A mirror write whose exception reaches the caller.
Neo4jWriteOutcomePropagates(ok) == IF ok THEN "ok" ELSE "error"

\* _create_neo4j_node / _create_neo4j_relation: "except Exception: logger.error"
\* swallows every failure of the mirror write, so the handler goes on to its
\* return; a failure that got out would reach the handler's "except Exception:
\* rollback; raise".  The commit came first, so the row stays either way.
Neo4jWriteOutcome(ok) == "ok"

\* Rows being inserted by requests that passed their existence check.
NodesInFlight == Cardinality({q \in Procs : pc[q] = "n_commit"})

\* create_knowledge_node up to the result of its first await: the existence
\* check.  scalar_one_or_none raises MultipleResultsFound on two rows, which
\* the handler's "except Exception" turns into rollback and raise.
\* cap bounds the rows of the table.
NodeSelect(p, req, cap) ==
    /\ pc[p] = "idle"
    /\ Cardinality(nodes) + NodesInFlight < cap
    /\ LET existing == ExistingNodes(req.user_id, req.entity[1], req.entity[2])
           args == [NoCall EXCEPT !.op = "node", !.user_id = req.user_id,
                                  !.name = req.entity[1], !.type = req.entity[2],
                                  !.payload = req.payload]
       IN  IF Cardinality(existing) > 1
           THEN /\ call' = [call EXCEPT ![p] = [args EXCEPT !.result = "error"]]
                /\ pc' = [pc EXCEPT ![p] = "done"]
                /\ nodes' = nodes
           ELSE IF Cardinality(existing) = 1
           THEN LET existing_node == CHOOSE n \in existing : TRUE
                IN  /\ call' = [call EXCEPT ![p] =
                                   [args EXCEPT !.result = "ok", !.hit = TRUE,
                                                !.id = existing_node.id]]
                    /\ pc' = [pc EXCEPT ![p] = "done"]
                    /\ nodes' = NodesAfterHit(existing_node, req.payload)
           ELSE /\ call' = [call EXCEPT ![p] = args]
                /\ pc' = [pc EXCEPT ![p] = "n_commit"]
                /\ nodes' = nodes
    /\ UNCHANGED <<relations, neo4jNodes, neo4jEdges>>

\* db.add(node); await db.commit(); await db.refresh(node).  The primary key
\* comes from the table's sequence; no row is ever deleted and no insert fails,
\* so the next value is the row count plus one.
NodeCommit(p) ==
    /\ pc[p] = "n_commit"
    /\ LET id == Cardinality(nodes) + 1
           c == call[p]
       IN  /\ nodes' = nodes \cup
                   {[id |-> id, user_id |-> c.user_id, name |-> c.name,
                     type |-> c.type, properties |-> c.payload.properties,
                     confidence |-> c.payload.confidence,
                     source |-> c.payload.source]}
           /\ call' = [call EXCEPT ![p].id = id]
    /\ pc' = [pc EXCEPT ![p] = "n_mirror"]
    /\ UNCHANGED <<relations, neo4jNodes, neo4jEdges>>

\* await self._create_neo4j_node(node); return node.  ok = FALSE is a Neo4j
\* that cannot be reached or a statement that fails.
NodeMirror(p) ==
    /\ pc[p] = "n_mirror"
    /\ \E ok \in BOOLEAN :
         LET c == call[p]
         IN  /\ neo4jNodes' =
                   IF ok THEN BagAdd(neo4jNodes,
                                     [id |-> c.id, name |-> c.name, type |-> c.type,
                                      user_id |-> c.user_id], 1)
                         ELSE neo4jNodes
             /\ call' = [call EXCEPT ![p].mirror = IF ok THEN "ok" ELSE "failed",
                                     ![p].result = Neo4jWriteOutcome(ok)]
    /\ pc' = [pc EXCEPT ![p] = "done"]
    /\ UNCHANGED <<nodes, relations, neo4jEdges>>

\* The response leaves the server; the coroutine and its session end.
Return(p) ==
    /\ pc[p] = "done"
    /\ pc' = [pc EXCEPT ![p] = "idle"]
    /\ call' = [call EXCEPT ![p] = NoCall]
    /\ UNCHANGED <<nodes, relations, neo4jNodes, neo4jEdges>>

\* -------------------------------------------------------- UpsertRelation
\* A validator that lets every pair through.
validate_different_nodes_absent(source_node_id, target_node_id) == TRUE

\* RelationCreate.validate_different_nodes: TRUE when the request is accepted.
\* The service takes a RelationCreate, so every call goes through it.
validate_different_nodes(source_node_id, target_node_id) ==
    ~(target_node_id = source_node_id)

\* An endpoint lookup that forgets the owner.
SelectNodeAnyOwner(id, user_id) == {n \in nodes : n.id = id}

\* select(KnowledgeNode).where(id == .., user_id == ..)
SelectNode(id, user_id) == {n \in nodes : n.id = id /\ n.user_id = user_id}

\* select(KnowledgeRelation).where(source_node_id == .., target_node_id == ..,
\*                                 type == .., user_id == ..)
ExistingRelations(user_id, source_node_id, target_node_id, type) ==
    {r \in relations : /\ r.source_node_id = source_node_id
                       /\ r.target_node_id = target_node_id
                       /\ r.type = type
                       /\ r.user_id = user_id}

RelationsInFlight == Cardinality({q \in Procs : pc[q] = "r_commit"})

RelationArgs(req) ==
    [NoCall EXCEPT !.op = "relation", !.user_id = req.user_id, !.type = req.type,
                   !.source_node_id = req.source_node_id,
                   !.target_node_id = req.target_node_id]

\* RelationCreate(source_node_id = n, target_node_id = n) raises in the
\* validator: the service is not entered.
RelationRejected(p, req) ==
    /\ pc[p] = "idle"
    /\ ~validate_different_nodes(req.source_node_id, req.target_node_id)
    /\ call' = [call EXCEPT ![p] =
                   [RelationArgs(req) EXCEPT !.result = "validation_error"]]
    /\ pc' = [pc EXCEPT ![p] = "done"]
    /\ UNCHANGED <<nodes, relations, neo4jNodes, neo4jEdges>>

\* create_knowledge_relation up to the result of its third await: the lookups
\* of the source node and of the target node, "if not source_node or not
\* target_node: raise ValueError", and the existence check of the relation.
\* The three selects are one step, taken when the last of them runs: no row is
\* ever deleted or updated, so a node found by an earlier select is still
\* there, and a request that found a node missing ends without reading more.
RelationSelect(p, req) ==
    /\ pc[p] = "idle"
    /\ validate_different_nodes(req.source_node_id, req.target_node_id)
    /\ Cardinality(relations) + RelationsInFlight < MaxRelations
    /\ LET source_node == SelectNode(req.source_node_id, req.user_id)
           target_node == SelectNode(req.target_node_id, req.user_id)
           existing == ExistingRelations(req.user_id, req.source_node_id,
                                         req.target_node_id, req.type)
           args == RelationArgs(req)
       IN  IF source_node = {} \/ target_node = {}
           THEN /\ call' = [call EXCEPT ![p] = [args EXCEPT !.result = "not_found"]]
                /\ pc' = [pc EXCEPT ![p] = "done"]
           ELSE IF Cardinality(existing) > 1
           THEN /\ call' = [call EXCEPT ![p] = [args EXCEPT !.result = "error"]]
                /\ pc' = [pc EXCEPT ![p] = "done"]
           ELSE IF Cardinality(existing) = 1
           THEN /\ call' = [call EXCEPT ![p] =
                               [args EXCEPT !.result = "ok", !.hit = TRUE,
                                            !.id = (CHOOSE r \in existing : TRUE).id]]
                /\ pc' = [pc EXCEPT ![p] = "done"]
           ELSE /\ call' = [call EXCEPT ![p] = args]
                /\ pc' = [pc EXCEPT ![p] = "r_commit"]
    /\ UNCHANGED <<nodes, relations, neo4jNodes, neo4jEdges>>

\* db.add(relation); await db.commit(); await db.refresh(relation)
RelationCommit(p) ==
    /\ pc[p] = "r_commit"
    /\ LET id == Cardinality(relations) + 1
           c == call[p]
       IN  /\ relations' = relations \cup
                   {[id |-> id, user_id |-> c.user_id,
                     source_node_id |-> c.source_node_id,
                     target_node_id |-> c.target_node_id, type |-> c.type]}
           /\ call' = [call EXCEPT ![p].id = id]
    /\ pc' = [pc EXCEPT ![p] = "r_mirror"]
    /\ UNCHANGED <<nodes, neo4jNodes, neo4jEdges>>

\* The number of graph elements a node pattern (:Entity {id: ..}) matches.
MatchEntityById(id) ==
    LET hits == {e \in DOMAIN neo4jNodes : e.id = id}
        RECURSIVE Sum(_)
        Sum(S) == IF S = {} THEN 0
                  ELSE LET x == CHOOSE y \in S : TRUE IN neo4jNodes[x] + Sum(S \ {x})
    IN  Sum(hits)

\* MATCH (source:Entity {id: s}), (target:Entity {id: t})
\* CREATE (source)-[r:RELATION {..}]->(target): one relationship per matched
\* pair of elements, none when a pattern matches nothing.  A relationship is
\* held by its properties and the id property of its two ends.
CreateRelationship(props, source_id, target_id) ==
    BagAdd(neo4jEdges,
           [id |-> props.id, user_id |-> props.user_id, type |-> props.type,
            source_id |-> source_id, target_id |-> target_id],
           MatchEntityById(source_id) * MatchEntityById(target_id))

\* await self._create_neo4j_relation(relation, source_node, target_node);
\* return relation
RelationMirror(p) ==
    /\ pc[p] = "r_mirror"
    /\ \E ok \in BOOLEAN :
         LET c == call[p]
         IN  /\ neo4jEdges' =
                   IF ok THEN CreateRelationship(c, c.source_node_id, c.target_node_id)
                         ELSE neo4jEdges
             /\ call' = [call EXCEPT ![p].mirror = IF ok THEN "ok" ELSE "failed",
                                     ![p].result = Neo4jWriteOutcome(ok)]
    /\ pc' = [pc EXCEPT ![p] = "done"]
    /\ UNCHANGED <<nodes, relations, neo4jNodes>>

\* ---------------------------------------------------------- node search
Lower(c) == IF c = "A" THEN "a" ELSE IF c = "B" THEN "b" ELSE c
LowerSeq(s) == [i \in DOMAIN s |-> Lower(s[i])]

\* name ILIKE '%term%': a case-insensitive substring.
ILike(name, term) ==
    \E i \in 1..(Len(name) - Len(term) + 1) :
        SubSeq(LowerSeq(name), i, i + Len(term) - 1) = LowerSeq(term)

NoFilter == "none"
NodeTypeFilters == {NoFilter} \cup EntityTypes
SearchTerms == {<<>>, <<"a">>, <<"B">>}
MinConfidences == {0, 60}
NodeSearchRequests ==
    [node_type : NodeTypeFilters, search_term : SearchTerms,
     min_confidence : MinConfidences]

\* _search_nodes: the rows of the response.  An empty search term and a
\* minimum confidence of 0 are falsy and add no filter.
SearchNodes(user_id, q) ==
    {n \in nodes :
        /\ n.user_id = user_id
        /\ (q.node_type # NoFilter => n.type = q.node_type)
        /\ (q.search_term # <<>> => ILike(n.name, q.search_term))
        /\ (q.min_confidence # 0 => n.confidence >= q.min_confidence)}

\* ------------------------------------------------------ relation search
\* limit: Field(20, ge=1, le=100); the values requests carry here.
Limits == {1, 2}

\* The result of _search_nodes for a request with a limit: the function reads
\* node_type, search_term and min_confidence of the request, and not limit.
search_nodes_result(user_id, q, limit) ==
    [nodes |-> SearchNodes(user_id, q), total |-> Cardinality(SearchNodes(user_id, q))]

RelationSearchRequests ==
    [relation_type : {NoFilter} \cup RelationTypes,
     source_node_id : {NoId} \cup NodeIds, target_node_id : {NoId} \cup NodeIds]

NodeSummary(n) == [id |-> n.id, name |-> n.name, type |-> n.type]

\* _search_relations: the relations of the response, each with the summaries
\* of its two ends; the ends are looked up among the caller's nodes and a
\* relation with an end that is not found is left out.
SearchRelations(user_id, q) ==
    LET found == {r \in relations :
                    /\ r.user_id = user_id
                    /\ (q.relation_type # NoFilter => r.type = q.relation_type)
                    /\ (q.source_node_id # NoId => r.source_node_id = q.source_node_id)
                    /\ (q.target_node_id # NoId => r.target_node_id = q.target_node_id)}
        node_ids == {r.source_node_id : r \in found} \cup {r.target_node_id : r \in found}
        ends == {n \in nodes : n.id \in node_ids /\ n.user_id = user_id}
        End(id) == CHOOSE n \in ends : n.id = id
    IN  {[id |-> r.id, type |-> r.type,
          source_node |-> NodeSummary(End(r.source_node_id)),
          target_node |-> NodeSummary(End(r.target_node_id))] :
            r \in {x \in found : /\ \E n \in ends : n.id = x.source_node_id
                                 /\ \E n \in ends : n.id = x.target_node_id}}

\* ---------------------------------------------------------- path search
\* shortestPath((start)-[*1..6]-(end))
PathLengthBound == 6

\* The ids one relationship away, in either direction.
Neighbours(id) ==
    {e.target_id : e \in {x \in DOMAIN neo4jEdges : x.source_id = id}} \cup
    {e.source_id : e \in {x \in DOMAIN neo4jEdges : x.target_id = id}}

Last(s) == s[Len(s)]
SeqRange(s) == {s[i] : i \in DOMAIN s}

\* The paths of k relationships from start that repeat no node.
RECURSIVE PathsFrom(_, _)
PathsFrom(start, k) ==
    IF k = 0 THEN {<<start>>}
    ELSE UNION {{Append(path, w) : w \in Neighbours(Last(path)) \ SeqRange(path)} :
                    path \in PathsFrom(start, k - 1)}

PathsBetween(start, end, k) == {path \in PathsFrom(start, k) : Last(path) = end}

\* The paths shortestPath may return: those of the least length in 1..6.
RECURSIVE ShortestFrom(_, _, _)
ShortestFrom(start, end, k) ==
    IF k > PathLengthBound THEN {}
    ELSE IF PathsBetween(start, end, k) # {} THEN PathsBetween(start, end, k)
    ELSE ShortestFrom(start, end, k + 1)

MirrorNode(id) == CHOOSE e \in DOMAIN neo4jNodes : e.id = id

PathSearchRequests == [source_node_id : NodeIds, target_node_id : NodeIds]

\* _search_paths: the paths the response may hold (one per matched pair of
\* start and end, any of the shortest).  start and end are matched by id and
\* user_id; the nodes between them are whatever the relationships reach.
\* Neo4j refuses shortestPath from a node to itself, and the handler answers
\* every exception with no paths.
SearchPaths(user_id, q) ==
    LET starts == {e \in DOMAIN neo4jNodes :
                      e.id = q.source_node_id /\ e.user_id = user_id}
        ends == {e \in DOMAIN neo4jNodes :
                      e.id = q.target_node_id /\ e.user_id = user_id}
    IN  IF starts = {} \/ ends = {} \/ q.source_node_id = q.target_node_id
        THEN {}
        ELSE {[nodes |-> [i \in DOMAIN path |-> NodeSummary(MirrorNode(path[i]))],
               length |-> Len(path) - 1] :
                 path \in ShortestFrom(q.source_node_id, q.target_node_id, 1)}

\* query_knowledge_graph with query_type node_search, relation_search or
\* path_search: the response goes to the caller and nothing is written.
NodeSearch(p, user_id, q) ==
    /\ pc[p] = "idle"
    /\ UNCHANGED vars

RelationSearch(p, user_id, q) ==
    /\ pc[p] = "idle"
    /\ UNCHANGED vars

PathSearch(p, user_id, q) ==
    /\ pc[p] = "idle"
    /\ UNCHANGED vars

\* ---------------------------------------------------------- GET /paths
\* "if not query_request.source_node_id or not query_request.target_node_id:
\* raise ValueError": an id that is absent, and the id 0, count as not given.
\* The check stands before the try of _search_paths.
SearchPathsOutcome(q) ==
    IF q.source_node_id = NoId \/ q.target_node_id = NoId
    THEN "value_error" ELSE "ok"

\* max_length: Query(6, ge=1, le=10)
MaxLengths == 1..10

\* The requests of GET /paths: ids that are nodes of the graph, the id 0, and
\* an id past the last node.
PathRequests ==
    [source_node_id : 0..(MaxPathNodes + 1), target_node_id : 0..(MaxPathNodes + 1),
     max_length : MaxLengths]

\* A filter that lets every path through.
PathsOfAnyLength(paths, max_length) == paths

\* [path for path in result['paths'] if path['length'] <= max_length]
PathsWithinLength(paths, max_length) ==
    {path \in paths : path.length <= max_length}

\* find_knowledge_paths: the paths the response may hold.  limit is at least
\* 1, so the response holds a path whenever one passes the filter.
find_knowledge_paths(user_id, q) ==
    IF SearchPathsOutcome(q) = "ok"
    THEN PathsWithinLength(SearchPaths(user_id, q), q.max_length)
    ELSE {}

\* The answer of GET /paths: "except Exception" of the endpoint turns the
\* ValueError into the status 500.
find_knowledge_paths_status(q) ==
    IF SearchPathsOutcome(q) = "ok" THEN "ok" ELSE "error"

FindKnowledgePaths(p, user_id, q) ==
    /\ pc[p] = "idle"
    /\ UNCHANGED vars

\* The graphs path search is asked about: PathNodes nodes of one owner, each
\* in the table and in the graph, and any of the relations that join a node to
\* the next one, each in the table and in the graph.
PathNodeIds == 1..MaxPathNodes
PathNodeName(id) == [i \in 1..id |-> "a"]

PathInit ==
    \E chosen \in SUBSET (1..(MaxPathNodes - 1)) :
        LET RelationId(i) == Cardinality({j \in chosen : j <= i})
        IN  /\ nodes = {[id |-> id, user_id |-> 1, name |-> PathNodeName(id),
                         type |-> "material", properties |-> "{}",
                         confidence |-> 50, source |-> "none"] : id \in PathNodeIds}
            /\ relations = {[id |-> RelationId(i), user_id |-> 1, source_node_id |-> i,
                             target_node_id |-> i + 1, type |-> "use"] : i \in chosen}
            /\ neo4jNodes = [e \in {[id |-> id, name |-> PathNodeName(id),
                                     type |-> "material", user_id |-> 1] :
                                        id \in PathNodeIds} |-> 1]
            /\ neo4jEdges = [e \in {[id |-> RelationId(i), user_id |-> 1, type |-> "use",
                                     source_id |-> i, target_id |-> i + 1] :
                                        i \in chosen} |-> 1]
            /\ pc = [p \in Procs |-> "idle"]
            /\ call = [p \in Procs |-> NoCall]
            /\ doc = NoDoc
            /\ merge = NoMerge

PathNext ==
    \E p \in Procs, user_id \in Users, q \in PathRequests :
        FindKnowledgePaths(p, user_id, q)

PathSpec == PathInit /\ [][PathNext]_vars

\* ------------------------------------------------- raw traversal query
\* A query text is the sequence of its words, blanks and punctuation marks, so
\* that "MATCH (" occurs in the text exactly where <<"MATCH", " ", "(">> occurs
\* in the sequence.

\* The first place where old occurs in text, 0 when it does not occur.
Find(text, old) ==
    LET at == {i \in 1..(Len(text) - Len(old) + 1) :
                  SubSeq(text, i, i + Len(old) - 1) = old}
    IN  IF at = {} THEN 0 ELSE CHOOSE i \in at : \A j \in at : i <= j

\* str.replace(old, new): every occurrence, left to right, none overlapping.
RECURSIVE Replace(_, _, _)
Replace(text, old, new) ==
    LET i == Find(text, old)
    IN  IF i = 0 THEN text
        ELSE SubSeq(text, 1, i - 1) \o new
                \o Replace(SubSeq(text, i + Len(old), Len(text)), old, new)

\* "(n:Entity {user_id: <user_id>})"
OwnerPattern(user_id) ==
    <<"(", "n", ":", "Entity", " ", "{", "user_id", ":", " ", ToString(user_id), "}", ")">>

\* endpoint execute_cypher_query: a query that names Entity and not user_id
\* has "MATCH (n:Entity)" replaced by "MATCH (n:Entity {user_id: <id>})".
EndpointRewrite(text, user_id) ==
    IF "user_id" \notin SeqRange(text) /\ "Entity" \in SeqRange(text)
    THEN Replace(text, <<"MATCH", " ", "(", "n", ":", "Entity", ")">>,
                 <<"MATCH", " ">> \o OwnerPattern(user_id))
    ELSE text

\* _execute_cypher_query: "MATCH (" is replaced by
\* "MATCH (n:Entity {user_id: <user_id>})".
ServiceRewrite(text, user_id) ==
    Replace(text, <<"MATCH", " ", "(">>, <<"MATCH", " ">> \o OwnerPattern(user_id))

\* "(<var>:Entity {id: <id>})"
IdPattern(var, id) ==
    <<"(", var, ":", "Entity", " ", "{", "id", ":", " ", ToString(id), "}", ")">>

RelPattern ==
    <<"-", "[", ":", "RELATION", " ", "{", "type", ":", " ", "'use'", ",", " ",
      "confidence", ":", " ", "1", "}", "]", "-", ">">>

\* The texts callers send.
\* "MATCH (n:Entity) RETURN n"
QueryAllEntities ==
    <<"MATCH", " ", "(", "n", ":", "Entity", ")", " ", "RETURN", " ", "n">>
\* "MATCH(n:Entity) RETURN n"
QueryAllEntitiesNoBlank ==
    <<"MATCH", "(", "n", ":", "Entity", ")", " ", "RETURN", " ", "n">>
\* "MATCH ( RETURN n"
QueryOpenPattern == <<"MATCH", " ", "(", " ", "RETURN", " ", "n">>
\* "MATCH(a:Entity {id: a}), (x:Entity {id: x}), (b:Entity {id: b})
\*  CREATE (a)-[:RELATION {type: 'use', confidence: 1}]->(x)-[:RELATION {..}]->(b)"
QueryCreateChain(a, x, b) ==
    <<"MATCH">> \o IdPattern("a", a) \o <<",", " ">> \o IdPattern("x", x)
        \o <<",", " ">> \o IdPattern("b", b) \o <<" ", "CREATE", " ">>
        \o <<"(", "a", ")">> \o RelPattern \o <<"(", "x", ")">> \o RelPattern
        \o <<"(", "b", ")">>

Chains == {c \in NodeIds \X NodeIds \X NodeIds :
              c[1] < c[3] /\ c[2] # c[1] /\ c[2] # c[3]}

RawQueries ==
    {QueryAllEntities, QueryAllEntitiesNoBlank, QueryOpenPattern} \cup
    {QueryCreateChain(c[1], c[2], c[3]) : c \in Chains}

Routes == {"cypher-query", "query"}

\* The text handed to session.run.
ExecutedQuery(text, user_id, route) ==
    ServiceRewrite(IF route = "cypher-query" THEN EndpointRewrite(text, user_id)
                                             ELSE text,
                   user_id)

\* "MATCH (n:Entity {user_id: <user_id>}) RETURN n"
ScopedRead(user_id) ==
    <<"MATCH", " ">> \o OwnerPattern(user_id) \o <<" ", "RETURN", " ", "n">>

\* The statements Neo4j's parser accepts among the executed texts; any other
\* text is a syntax error.
ParseCypher(text) ==
    IF \E u \in Users : text = ScopedRead(u)
    THEN [kind |-> "match_owner", user_id |-> CHOOSE u \in Users : text = ScopedRead(u),
          chain |-> <<>>]
    ELSE IF text = QueryAllEntitiesNoBlank
    THEN [kind |-> "match_all", user_id |-> 0, chain |-> <<>>]
    ELSE IF \E c \in Chains : text = QueryCreateChain(c[1], c[2], c[3])
    THEN [kind |-> "create_chain", user_id |-> 0,
          chain |-> CHOOSE c \in Chains : text = QueryCreateChain(c[1], c[2], c[3])]
    ELSE [kind |-> "syntax_error", user_id |-> 0, chain |-> <<>>]

\* The raw requests, each with the statement its executed text parses to.
RawRequests ==
    {[user_id |-> u, text |-> t, route |-> r,
      statement |-> ParseCypher(ExecutedQuery(t, u, r))] :
        u \in Users, t \in RawQueries, r \in Routes}

\* session.run(modified_query): the records returned and the relationships
\* after the statement; a syntax error is re-raised by the handler.
RunCypher(statement) ==
    IF statement.kind = "match_owner"
    THEN [records |-> {e \in DOMAIN neo4jNodes : e.user_id = statement.user_id},
          edges |-> neo4jEdges]
    ELSE IF statement.kind = "match_all"
    THEN [records |-> DOMAIN neo4jNodes, edges |-> neo4jEdges]
    ELSE IF statement.kind = "create_chain"
    THEN LET c == statement.chain
             rows == MatchEntityById(c[1]) * MatchEntityById(c[2]) * MatchEntityById(c[3])
             Edge(s, t) == [id |-> NoId, user_id |-> 0, type |-> "use",
                            source_id |-> s, target_id |-> t]
         IN  [records |-> {},
              edges |-> BagAdd(BagAdd(neo4jEdges, Edge(c[1], c[2]), rows),
                               Edge(c[2], c[3]), rows)]
    ELSE [records |-> {}, edges |-> neo4jEdges]

\* The relationships written through raw queries.
RawRelationships ==
    LET raw == {e \in DOMAIN neo4jEdges : e.id = NoId}
        RECURSIVE Sum(_)
        Sum(S) == IF S = {} THEN 0
                  ELSE LET x == CHOOSE y \in S : TRUE IN neo4jEdges[x] + Sum(S \ {x})
    IN  Sum(raw)

\* POST /cypher-query and POST /query with query_type "cypher".
RawQuery(p, req) ==
    /\ pc[p] = "idle"
    /\ LET run == RunCypher(req.statement)
       IN  /\ run.edges # neo4jEdges => RawRelationships < 2 * MaxRawWrites
           /\ neo4jEdges' = run.edges
    /\ UNCHANGED <<nodes, relations, neo4jNodes, pc, call>>

\* ------------------------------------------------------------ extraction
\* The content of a chunk is the sequence of what the patterns of the service
\* can match in it: a word an entity pattern matches (with the text of the
\* match and the pattern's type), a word a relation pattern matches, the end
\* of a sentence, a run of PadWidth characters no pattern matches, or
\* something on which the pass over the text raises.
Token(kind, text, type) == [kind |-> kind, text |-> text, type |-> type]
EntityToken(text, type) == Token("entity", text, type)
KeywordToken(type) == Token("keyword", <<>>, type)
SentenceEnd == Token("stop", <<>>, "none")
Padding == Token("pad", <<>>, "none")
RaisingToken == Token("raise", <<>>, "none")

\* The number of characters of a token: the text of an entity, the two
\* characters of a relation word, the one character that ends a sentence.
Width(token) ==
    IF token.kind = "entity" THEN Len(token.text)
    ELSE IF token.kind = "keyword" THEN 2
    ELSE IF token.kind = "pad" THEN PadWidth
    ELSE 1

\* len(text)
RECURSIVE TextLen(_)
TextLen(content) ==
    IF content = <<>> THEN 0 ELSE Width(Head(content)) + TextLen(Tail(content))

\* match.start() of the i-th token: the characters before it.
Offset(content, i) == TextLen(SubSeq(content, 1, i - 1))

\* "match.start() - 50" and "match.end() + 50"
Window == 50

\* self.entity_patterns, in the order of the dict: cost comes before material.
entity_patterns == <<"cost", "material">>
\* self.relation_patterns
relation_patterns == <<"use">>

RECURSIVE FlattenSeq(_)
FlattenSeq(ss) == IF ss = <<>> THEN <<>> ELSE Head(ss) \o FlattenSeq(Tail(ss))

\* The matches of one entity pattern, in the order of their positions.
EntityMatches(content, entity_type) ==
    LET Match(i) ==
            IF content[i].kind = "entity" /\ content[i].type = entity_type
            THEN <<[text |-> content[i].text, type |-> entity_type,
                    start |-> Offset(content, i),
                    end |-> Offset(content, i) + Width(content[i]),
                    confidence |-> 80, method |-> "rule_based"]>>
            ELSE <<>>
    IN  FlattenSeq([i \in DOMAIN content |-> Match(i)])

\* _extract_entities_by_rules: pattern by pattern, match by match.
extract_entities_by_rules(content) ==
    FlattenSeq([t \in DOMAIN entity_patterns |->
                   EntityMatches(content, entity_patterns[t])])

\* _deduplicate_entities: the first entity of every (text.lower(), type, start).
RECURSIVE deduplicate_entities(_, _)
deduplicate_entities(entities, seen) ==
    IF entities = <<>> THEN <<>>
    ELSE LET entity == Head(entities)
             key == <<LowerSeq(entity.text), entity.type, entity.start>>
         IN  IF key \in seen THEN deduplicate_entities(Tail(entities), seen)
             ELSE <<entity>> \o deduplicate_entities(Tail(entities), seen \cup {key})

ExtractionRaises(content) == \E i \in DOMAIN content : content[i].kind = "raise"

\* extract_entities with the default method "rule_based"; "except Exception:
\* return []".
extract_entities(content) ==
    IF ExtractionRaises(content) THEN <<>>
    ELSE deduplicate_entities(extract_entities_by_rules(content), {})

\* The number of the sentence a position lies in.
SentenceOf(content, i) ==
    Cardinality({j \in 1..i : content[j].kind = "stop"}) + 1

\* re.split(r'[。！？\n]', text): the sentences of the text, the empty ones too.
Sentences(content) ==
    [sn \in 1..(SentenceOf(content, Len(content))) |->
        FlattenSeq([i \in DOMAIN content |->
                       IF content[i].kind # "stop" /\ SentenceOf(content, i) = sn
                       THEN <<content[i]>> ELSE <<>>])]

\* text[start_pos:end_pos]: the tokens that lie in the slice.
Slice(content, start_pos, end_pos) ==
    FlattenSeq([i \in DOMAIN content |->
                   IF /\ start_pos <= Offset(content, i)
                      /\ Offset(content, i) + Width(content[i]) <= end_pos
                   THEN <<content[i]>> ELSE <<>>])

Max(a, b) == IF a >= b THEN a ELSE b
Min(a, b) == IF a <= b THEN a ELSE b

\* _extract_relations_by_rules: every match of a relation pattern joins the
\* first two entities of the list that start within Window characters of it.
extract_relations_by_rules(content, entities) ==
    LET Match(t, i) ==
            LET start_pos == Max(0, Offset(content, i) - Window)
                end_pos == Min(TextLen(content),
                               Offset(content, i) + Width(content[i]) + Window)
                related_entities ==
                    SelectSeq(entities,
                              LAMBDA e : start_pos <= e.start /\ e.start <= end_pos)
            IN  IF /\ content[i].kind = "keyword"
                   /\ content[i].type = relation_patterns[t]
                   /\ Len(related_entities) >= 2
                THEN <<[source |-> related_entities[1],
                        target |-> related_entities[2],
                        type |-> relation_patterns[t], confidence |-> 70,
                        context |-> Slice(content, start_pos, end_pos),
                        method |-> "rule_based"]>>
                ELSE <<>>
    IN  FlattenSeq([t \in DOMAIN relation_patterns |->
                       FlattenSeq([i \in DOMAIN content |-> Match(t, i)])])

\* What "relation_type = self._infer_relation_type(entity1, entity2)" binds:
\* the method is async and the call is not awaited, so the value is a
\* coroutine object and no relation type.
CoroutineObject == "<coroutine object>"

\* _extract_relations_by_cooccurrence: sentence by sentence, every pair of the
\* entities that lie between text.find(sentence) and the end of the sentence
\* found there.
extract_relations_by_cooccurrence(content, entities) ==
    LET sentences == Sentences(content)
        sentence_entities(sentence) ==
            LET found == Offset(content, Find(content, sentence))
            IN  SelectSeq(entities,
                          LAMBDA e : /\ e.start >= found
                                     /\ e.end <= found + TextLen(sentence))
        Pair(sentence, es, i, j) ==
            IF i < j
            THEN <<[source |-> es[i], target |-> es[j], type |-> CoroutineObject,
                    confidence |-> 50, context |-> sentence,
                    method |-> "cooccurrence"]>>
            ELSE <<>>
        Pairs(sentence, es) ==
            FlattenSeq([i \in DOMAIN es |->
                           FlattenSeq([j \in DOMAIN es |-> Pair(sentence, es, i, j)])])
    IN  FlattenSeq([sn \in DOMAIN sentences |->
                       Pairs(sentences[sn], sentence_entities(sentences[sn]))])

\* _deduplicate_relations without the test of reverse_key.
RECURSIVE deduplicate_relations_one_direction(_, _)
deduplicate_relations_one_direction(rels, seen) ==
    IF rels = <<>> THEN <<>>
    ELSE LET relation == Head(rels)
             key == <<LowerSeq(relation.source.text), LowerSeq(relation.target.text),
                      relation.type>>
         IN  IF relation.type # CoroutineObject /\ key \in seen
             THEN deduplicate_relations_one_direction(Tail(rels), seen)
             ELSE <<relation>>
                      \o deduplicate_relations_one_direction(Tail(rels), seen \cup {key})

\* _deduplicate_relations: the first relation of every (source text, target
\* text, type), read in either direction.  Two coroutine objects are never
\* equal.
RECURSIVE deduplicate_relations(_, _)
deduplicate_relations(rels, seen) ==
    IF rels = <<>> THEN <<>>
    ELSE LET relation == Head(rels)
             key == <<LowerSeq(relation.source.text), LowerSeq(relation.target.text),
                      relation.type>>
             reverse_key == <<key[2], key[1], key[3]>>
         IN  IF relation.type # CoroutineObject /\ (key \in seen \/ reverse_key \in seen)
             THEN deduplicate_relations(Tail(rels), seen)
             ELSE <<relation>> \o deduplicate_relations(Tail(rels), seen \cup {key})

\* extract_relations; "except Exception: return []".
extract_relations(content, entities) ==
    IF ExtractionRaises(content) THEN <<>>
    ELSE deduplicate_relations(
             extract_relations_by_rules(content, entities)
                 \o extract_relations_by_cooccurrence(content, entities), {})

\* ------------------------------------------------------- _merge_entities
\* key = (entity['text'].lower(), entity['type'])
MergeKey(entity) == <<LowerSeq(entity.text), entity.type>>

\* max(entity_list, key=lambda x: x['confidence']): the first of the entities
\* with the greatest confidence.
MaxByConfidence(entity_list) ==
    LET best == {i \in DOMAIN entity_list :
                    \A j \in DOMAIN entity_list :
                        entity_list[j].confidence <= entity_list[i].confidence}
    IN  entity_list[CHOOSE i \in best : \A j \in best : i <= j]

\* One entry of merged: "if len(entity_list) > 1" raises the confidence of the
\* best entity by 0.1, up to 0.95, and names its method hybrid.
MergeGroup(entity_list) ==
    LET best_entity == MaxByConfidence(entity_list)
    IN  IF Len(entity_list) > 1
        THEN [best_entity EXCEPT !.confidence = Min(95, best_entity.confidence + 10),
                                 !.method = "hybrid"]
        ELSE best_entity

\* _merge_entities: the groups in the order in which their keys first appear
\* in rule_entities + jieba_entities.
merge_entities(rule_entities, jieba_entities) ==
    LET all == rule_entities \o jieba_entities
        Group(i) == SelectSeq(all, LAMBDA e : MergeKey(e) = MergeKey(all[i]))
        Entry(i) == IF \E j \in 1..(i - 1) : MergeKey(all[j]) = MergeKey(all[i])
                    THEN <<>>
                    ELSE <<MergeGroup(Group(i))>>
    IN  FlattenSeq([i \in DOMAIN all |-> Entry(i)])

\* The candidates of one method for a text: what _extract_entities_by_rules
\* (confidence 0.8) and _extract_entities_by_jieba (confidence 0.6) append, a
\* text that occurs twice being matched twice.
MergeTexts == {<<"a">>, <<"A">>}
CandidateLists(method, confidence) ==
    UNION {[1..n -> {[text |-> text, type |-> type, confidence |-> confidence,
                      method |-> method] :
                         text \in MergeTexts, type \in EntityTypes}] :
               n \in 0..MaxCandidates}

MergeInit ==
    /\ nodes = {}
    /\ relations = {}
    /\ neo4jNodes = EmptyBag
    /\ neo4jEdges = EmptyBag
    /\ pc = [p \in Procs |-> "idle"]
    /\ call = [p \in Procs |-> NoCall]
    /\ doc = NoDoc
    /\ \E rule_entities \in CandidateLists("rule_based", 80),
          jieba_entities \in CandidateLists("jieba", 60) :
          merge = [NoMerge EXCEPT !.rule_entities = rule_entities,
                                  !.jieba_entities = jieba_entities]

\* entities = await self._merge_entities(rule_entities, jieba_entities)
MergeEntities ==
    /\ ~merge.called
    /\ merge' = [merge EXCEPT !.result = merge_entities(merge.rule_entities,
                                                        merge.jieba_entities),
                              !.op = "merge",
                              !.called = TRUE]
    /\ UNCHANGED <<nodes, relations, neo4jNodes, neo4jEdges, pc, call, doc>>

MergeNext == MergeEntities

MergeSpec == MergeInit /\ [][MergeNext]_vars

\* -------------------------------------- extract_entities, method "hybrid"
\* What "entity_type = self._map_pos_to_entity_type(flag)" binds for the i-th
\* word: the method is async and the call is not awaited, so the value is a
\* coroutine object of its own, equal to no entity type and to no other
\* coroutine object.
EntityCoroutineObject(i) ==
    IF i = 1 THEN "<coroutine object 1>" ELSE "<coroutine object 2>"

\* What _extract_entities_by_rules returns: start is the offset of the match.
HybridRuleLists ==
    UNION {{[i \in 1..n |-> [text |-> f[i][1], type |-> f[i][2], start |-> i,
                             confidence |-> 80, method |-> "rule_based"]] :
               f \in [1..n -> MergeTexts \X EntityTypes]} :
           n \in 0..MaxCandidates}

\* What _extract_entities_by_jieba returns: start is text.find(word), the
\* offset of the first occurrence of the word.
HybridJiebaLists ==
    UNION {{[i \in 1..n |->
                [text |-> f[i], type |-> EntityCoroutineObject(i),
                 start |-> CHOOSE j \in 1..i :
                               f[j] = f[i] /\ \A k \in 1..(j - 1) : f[k] # f[i],
                 confidence |-> 60, method |-> "jieba"]] :
               f \in [1..n -> MergeTexts]} :
           n \in 0..MaxCandidates}

\* The branch "hybrid" of extract_entities with _deduplicate_entities after
\* it, inside the one try of the method: "except Exception: return []".
extract_entities_hybrid(rule_entities, jieba_entities, failed) ==
    IF failed # "none" THEN <<>>
    ELSE deduplicate_entities(merge_entities(rule_entities, jieba_entities), {})

HybridInit ==
    /\ nodes = {}
    /\ relations = {}
    /\ neo4jNodes = EmptyBag
    /\ neo4jEdges = EmptyBag
    /\ pc = [p \in Procs |-> "idle"]
    /\ call = [p \in Procs |-> NoCall]
    /\ doc = NoDoc
    /\ \E rule_entities \in HybridRuleLists, jieba_entities \in HybridJiebaLists,
          failed \in {"none", "rules", "jieba"} :
          merge = [NoMerge EXCEPT !.rule_entities = rule_entities,
                                  !.jieba_entities = jieba_entities,
                                  !.failed = failed]

\* entities = await self.extract_entities(text, "hybrid")
ExtractEntitiesHybrid ==
    /\ ~merge.called
    /\ merge' = [merge EXCEPT !.result = extract_entities_hybrid(
                                             merge.rule_entities,
                                             merge.jieba_entities, merge.failed),
                              !.op = "hybrid",
                              !.called = TRUE]
    /\ UNCHANGED <<nodes, relations, neo4jNodes, neo4jEdges, pc, call, doc>>

HybridSpec == HybridInit /\ [][ExtractEntitiesHybrid]_vars

\* ------------------------------------------------- _deduplicate_relations
\* The relation candidates the function is given: what
\* _extract_relations_by_rules appends (the type of the pattern) and what
\* _extract_relations_by_cooccurrence appends (the coroutine object), between
\* entities whose texts differ in case or not at all.
RelationCandidates ==
    {[source |-> [text |-> s, type |-> "material"],
      target |-> [text |-> t, type |-> "material"],
      type |-> type] :
         s \in {<<"a">>, <<"A">>, <<"b">>}, t \in {<<"a">>, <<"A">>, <<"b">>},
         type \in {"use", CoroutineObject}}
RelationCandidateLists ==
    UNION {[1..n -> RelationCandidates] : n \in 0..MaxRelationCandidates}

DedupInit ==
    /\ nodes = {}
    /\ relations = {}
    /\ neo4jNodes = EmptyBag
    /\ neo4jEdges = EmptyBag
    /\ pc = [p \in Procs |-> "idle"]
    /\ call = [p \in Procs |-> NoCall]
    /\ doc = NoDoc
    /\ \E rels \in RelationCandidateLists :
          merge = [NoMerge EXCEPT !.relations = rels]

\* unique_relations = await self._deduplicate_relations(relations)
DeduplicateRelations ==
    /\ ~merge.called
    /\ merge' = [merge EXCEPT !.result = deduplicate_relations(merge.relations, {}),
                              !.op = "dedup",
                              !.called = TRUE]
    /\ UNCHANGED <<nodes, relations, neo4jNodes, neo4jEdges, pc, call, doc>>

DedupSpec == DedupInit /\ [][DeduplicateRelations]_vars

\* ------------------------------------------------------ ProcessDocument
\* The contents a chunk is drawn from: one entity; one entity and something
\* that makes the pass raise; two entities in two sentences with a relation
\* word between them; two entities in one sentence; two entities of the same
\* text and different types around a relation word.
ContentOne == <<EntityToken(<<"a">>, "material")>>
ContentRaises == <<EntityToken(<<"a">>, "material"), RaisingToken>>
ContentPair ==
    <<EntityToken(<<"a">>, "material"), SentenceEnd, KeywordToken("use"),
      SentenceEnd, EntityToken(<<"A", "b">>, "material")>>
ContentSameSentence ==
    <<EntityToken(<<"a">>, "material"), EntityToken(<<"A", "b">>, "material")>>
ContentSameName ==
    <<EntityToken(<<"a">>, "material"), SentenceEnd, KeywordToken("use"),
      SentenceEnd, EntityToken(<<"a">>, "cost")>>
\* One sentence with two entities, twice.
ContentRepeated ==
    <<EntityToken(<<"a">>, "material"), EntityToken(<<"A", "b">>, "material"),
      SentenceEnd,
      EntityToken(<<"a">>, "material"), EntityToken(<<"A", "b">>, "material")>>
\* An entity far from a relation word, and two entities next to the word, one
\* of them with the text of the first and another type.
ContentFar ==
    <<EntityToken(<<"a">>, "cost"), SentenceEnd, Padding, SentenceEnd,
      EntityToken(<<"a">>, "material"), SentenceEnd, KeywordToken("use"),
      SentenceEnd, EntityToken(<<"A", "b">>, "material")>>
Contents ==
    {ContentOne, ContentRaises, ContentPair, ContentSameSentence, ContentSameName}

\* The rows of document_chunks of a document: up to MaxChunks chunks.
ChunkLists ==
    UNION {[1..n -> Contents] : n \in 0..MaxChunks}
\* The same over the contents in which the offsets matter.
LongChunkLists ==
    UNION {[1..n -> {ContentRepeated, ContentFar}] : n \in 0..MaxChunks}

DocumentIds == {1}
\* The callers of process-document.
DocumentUsers == {1}

\* A select that takes a document without chunks for one with chunks.
FetchOutcomeWithoutChunkCheck(found, chunks) ==
    IF ~found THEN "document_not_found" ELSE "ok"

\* "if not document: raise ValueError" and "if not chunks: raise ValueError".
FetchOutcome(found, chunks) ==
    IF ~found THEN "document_not_found"
    ELSE IF chunks = <<>> THEN "no_chunks"
    ELSE "ok"

\* process_document_knowledge up to the loop over the chunks.  found says
\* whether the documents table holds document_id for user_id; chunks are the
\* rows of document_chunks for document_id.
DocStart(p, user_id, document_id, found, chunks) ==
    /\ pc[p] = "idle"
    /\ doc.status = "none"
    /\ LET frame == [NoDoc EXCEPT !.proc = p, !.user_id = user_id,
                                  !.document_id = document_id]
           outcome == FetchOutcome(found, chunks)
       IN  doc' = IF outcome = "ok"
                  THEN [frame EXCEPT !.status = "running", !.stage = "chunk",
                                     !.chunks = chunks, !.i = 1]
                  ELSE [frame EXCEPT !.status = "raised", !.error = outcome]
    /\ UNCHANGED <<nodes, relations, neo4jNodes, neo4jEdges, pc, call, merge>>

\* "for chunk in chunks": extract_entities and extract_relations of the chunk.
DocExtract(p) ==
    /\ doc.proc = p /\ doc.status = "running" /\ doc.stage = "chunk"
    /\ doc.i <= Len(doc.chunks)
    /\ LET entities == extract_entities(doc.chunks[doc.i])
       IN  doc' = [doc EXCEPT !.entities = entities,
                              !.relations = extract_relations(doc.chunks[doc.i], entities),
                              !.created_nodes = <<>>, !.j = 1, !.stage = "entities"]
    /\ UNCHANGED <<nodes, relations, neo4jNodes, neo4jEdges, pc, call, merge>>

\* f"document_{document_id}_chunk_{chunk.id}"; the chunks of a document are
\* numbered from 1.
ChunkSource(document_id, chunk_id) ==
    "document_" \o ToString(document_id) \o "_chunk_" \o ToString(chunk_id)

\* EntityBase: name of 1 to 200 characters, type of the enum.
ValidEntityCreate(name, type) ==
    Len(name) >= 1 /\ Len(name) <= 200 /\ type \in EntityTypes

\* "for entity_data in entities": EntityCreate(..) and the call of
\* create_knowledge_node, up to that call's first await.  The EntityCreate is
\* built outside the try.
DocEntity(p, cap) ==
    /\ doc.proc = p /\ doc.status = "running" /\ doc.stage = "entities"
    /\ doc.j <= Len(doc.entities)
    /\ LET entity_data == doc.entities[doc.j]
           req == [user_id |-> doc.user_id,
                   entity |-> <<entity_data.text, entity_data.type>>,
                   payload |-> [properties |-> "{method}",
                                confidence |-> entity_data.confidence,
                                source |-> ChunkSource(doc.document_id, doc.i)]]
       IN  IF ValidEntityCreate(entity_data.text, entity_data.type)
           THEN /\ NodeSelect(p, req, cap)
                /\ doc' = [doc EXCEPT !.stage = "node_call"]
           ELSE /\ pc[p] = "idle"
                /\ doc' = [doc EXCEPT !.status = "raised", !.error = "validation_error"]
                /\ UNCHANGED <<nodes, relations, neo4jNodes, neo4jEdges, pc, call>>
    /\ UNCHANGED merge

\* create_knowledge_node has returned or raised: "created_nodes.append(node);
\* total_nodes += 1", or "except Exception: logger.warning".
DocEntityReturn(p) ==
    /\ doc.proc = p /\ doc.status = "running" /\ doc.stage = "node_call"
    /\ pc[p] = "done"
    /\ doc' = IF call[p].result = "ok"
              THEN [doc EXCEPT !.created_nodes =
                                   Append(@, [id |-> call[p].id, name |-> call[p].name]),
                               !.total_nodes = @ + 1,
                               !.j = @ + 1, !.stage = "entities"]
              ELSE [doc EXCEPT !.j = @ + 1, !.stage = "entities"]
    /\ pc' = [pc EXCEPT ![p] = "idle"]
    /\ call' = [call EXCEPT ![p] = NoCall]
    /\ UNCHANGED <<nodes, relations, neo4jNodes, neo4jEdges, merge>>

\* The loop over the entities is over.
DocEntitiesEnd(p) ==
    /\ doc.proc = p /\ doc.status = "running" /\ doc.stage = "entities"
    /\ doc.j > Len(doc.entities)
    /\ doc' = [doc EXCEPT !.stage = "relations", !.k = 1]
    /\ UNCHANGED <<nodes, relations, neo4jNodes, neo4jEdges, pc, call, merge>>

\* next((n for n in created_nodes if n.name == text), None): the id of the
\* first created node with the name, NoId when there is none.
NodeByName(created_nodes, text) ==
    LET found == {i \in DOMAIN created_nodes : created_nodes[i].name = text}
    IN  IF found = {} THEN NoId
        ELSE created_nodes[CHOOSE i \in found : \A i2 \in found : i <= i2].id

\* RelationCreate: type of the enum, and validate_different_nodes.
ValidRelationCreate(source_node_id, target_node_id, type) ==
    /\ type \in RelationTypes
    /\ validate_different_nodes(source_node_id, target_node_id)

\* "for relation_data in relations": the two lookups in created_nodes, the
\* RelationCreate, built outside the try, and the call of
\* create_knowledge_relation up to the result of its selects.  An exception of
\* RelationCreate reaches "except Exception: logger.error; raise" of
\* process_document_knowledge.
DocRelation(p) ==
    /\ doc.proc = p /\ doc.status = "running" /\ doc.stage = "relations"
    /\ doc.k <= Len(doc.relations)
    /\ pc[p] = "idle"
    /\ LET relation_data == doc.relations[doc.k]
           source_node == NodeByName(doc.created_nodes, relation_data.source.text)
           target_node == NodeByName(doc.created_nodes, relation_data.target.text)
       IN  IF source_node = NoId \/ target_node = NoId
           THEN /\ doc' = [doc EXCEPT !.k = @ + 1]
                /\ UNCHANGED <<nodes, relations, neo4jNodes, neo4jEdges, pc, call>>
           ELSE IF ~ValidRelationCreate(source_node, target_node, relation_data.type)
           THEN /\ doc' = [doc EXCEPT !.status = "raised", !.error = "validation_error"]
                /\ UNCHANGED <<nodes, relations, neo4jNodes, neo4jEdges, pc, call>>
           ELSE /\ RelationSelect(p, [user_id |-> doc.user_id,
                                      source_node_id |-> source_node,
                                      target_node_id |-> target_node,
                                      type |-> relation_data.type])
                /\ doc' = [doc EXCEPT !.stage = "relation_call"]
    /\ UNCHANGED merge

\* create_knowledge_relation has returned or raised: "total_edges += 1", or
\* "except Exception: logger.warning".
DocRelationReturn(p) ==
    /\ doc.proc = p /\ doc.status = "running" /\ doc.stage = "relation_call"
    /\ pc[p] = "done"
    /\ doc' = IF call[p].result = "ok"
              THEN [doc EXCEPT !.total_edges = @ + 1, !.k = @ + 1,
                               !.stage = "relations"]
              ELSE [doc EXCEPT !.k = @ + 1, !.stage = "relations"]
    /\ pc' = [pc EXCEPT ![p] = "idle"]
    /\ call' = [call EXCEPT ![p] = NoCall]
    /\ UNCHANGED <<nodes, relations, neo4jNodes, neo4jEdges, merge>>

\* "total_entities += len(entities); total_relations += len(relations)" and
\* the next chunk.
DocChunkEnd(p) ==
    /\ doc.proc = p /\ doc.status = "running" /\ doc.stage = "relations"
    /\ doc.k > Len(doc.relations)
    /\ doc' = [doc EXCEPT !.total_entities = @ + Len(doc.entities),
                          !.total_relations = @ + Len(doc.relations),
                          !.i = @ + 1, !.stage = "chunk"]
    /\ UNCHANGED <<nodes, relations, neo4jNodes, neo4jEdges, pc, call, merge>>

\* The loop over the chunks is over: "return result".
DocFinish(p) ==
    /\ doc.proc = p /\ doc.status = "running" /\ doc.stage = "chunk"
    /\ doc.i > Len(doc.chunks)
    /\ doc' = [doc EXCEPT !.status = "returned", !.stage = "none"]
    /\ UNCHANGED <<nodes, relations, neo4jNodes, neo4jEdges, pc, call, merge>>

\* The response, or the error, leaves the server.
DocReturn(p) ==
    /\ doc.proc = p /\ doc.status \in {"returned", "raised"}
    /\ doc' = NoDoc
    /\ UNCHANGED <<nodes, relations, neo4jNodes, neo4jEdges, pc, call, merge>>

\* ------------------------------------------------------- specifications
Step(p, cap) ==
    /\ UNCHANGED <<doc, merge>>
    /\ \/ \E req \in NodeRequests : NodeSelect(p, req, cap)
       \/ NodeCommit(p)
       \/ NodeMirror(p)
       \/ \E req \in RelationRequests : RelationRejected(p, req)
       \/ \E req \in RelationRequests : RelationSelect(p, req)
       \/ RelationCommit(p)
       \/ RelationMirror(p)
       \/ Return(p)
       \/ \E u \in Users, q \in NodeSearchRequests : NodeSearch(p, u, q)
       \/ \E u \in Users, q \in RelationSearchRequests : RelationSearch(p, u, q)
       \/ \E u \in Users, q \in PathSearchRequests : PathSearch(p, u, q)
       \/ \E req \in RawRequests : RawQuery(p, req)

\* Requests of any number of callers, interleaved at their awaits.
Next == \E p \in Procs : Step(p, MaxNodesConcurrent)

Spec == Init /\ [][Next]_vars

\* One request at a time: a request starts when no other is under way.
SeqNext ==
    \E p \in Procs :
        /\ \A q \in Procs \ {p} : pc[q] = "idle"
        /\ Step(p, MaxNodes)

SeqSpec == Init /\ [][SeqNext]_vars

\* One request at a time, every request that is under way is run to its end,
\* and the graph database answers again and again: a write to it that stays
\* possible does not fail for ever.
NodeMirrorOk(p) ==
    NodeMirror(p) /\ call'[p].mirror = "ok" /\ UNCHANGED <<doc, merge>>
RelationMirrorOk(p) ==
    RelationMirror(p) /\ call'[p].mirror = "ok" /\ UNCHANGED <<doc, merge>>

LiveNext ==
    \E p \in Procs :
        /\ \A q \in Procs \ {p} : pc[q] = "idle"
        /\ Step(p, MaxNodesConcurrent)

LiveSpec ==
    /\ Init
    /\ [][LiveNext]_vars
    /\ WF_vars(LiveNext)
    /\ \A p \in Procs : SF_vars(NodeMirrorOk(p)) /\ SF_vars(RelationMirrorOk(p))

\* process-document requests, one at a time, with nothing else running.
DocStepOver(p, chunk_lists) ==
    \/ \E user_id \in DocumentUsers, document_id \in DocumentIds,
          found \in BOOLEAN, chunks \in chunk_lists :
          DocStart(p, user_id, document_id, found, chunks)
    \/ DocExtract(p)
    \/ DocEntity(p, MaxNodes + 1)
    \/ NodeCommit(p) /\ UNCHANGED <<doc, merge>>
    \/ NodeMirror(p) /\ UNCHANGED <<doc, merge>>
    \/ DocEntityReturn(p)
    \/ DocEntitiesEnd(p)
    \/ DocRelation(p)
    \/ RelationCommit(p) /\ UNCHANGED <<doc, merge>>
    \/ RelationMirror(p) /\ UNCHANGED <<doc, merge>>
    \/ DocRelationReturn(p)
    \/ DocChunkEnd(p)
    \/ DocFinish(p)
    \/ DocReturn(p)

DocStep(p) == DocStepOver(p, ChunkLists)

DocNext ==
    \E p \in Procs :
        /\ \A q \in Procs \ {p} : pc[q] = "idle"
        /\ doc.proc \in {0, p}
        /\ DocStep(p)

DocSpec == Init /\ [][DocNext]_vars

\* The same over the documents whose chunks are the long contents.
LongDocNext ==
    \E p \in Procs :
        /\ \A q \in Procs \ {p} : pc[q] = "idle"
        /\ doc.proc \in {0, p}
        /\ DocStepOver(p, LongChunkLists)

LongDocSpec == Init /\ [][LongDocNext]_vars

\* The same next to POST /entities requests of any number of callers for one
\* entity, interleaved at their awaits, while no document is being processed.
RacingRequest ==
    [user_id |-> 1, entity |-> <<(<<"a">>), "material">>, payload |-> DefaultPayload]

RacingStep(p) ==
    /\ doc.proc = 0
    /\ UNCHANGED <<doc, merge>>
    /\ \/ NodeSelect(p, RacingRequest, MaxNodesConcurrent)
       \/ NodeCommit(p)
       \/ NodeMirror(p)
       \/ Return(p)

RacingDocNext ==
    \/ \E p \in Procs : RacingStep(p)
    \/ LongDocNext

RacingDocSpec == Init /\ [][RacingDocNext]_vars

\* ---------------------------------------------------------------- claims
RowsWithKey(user_id, name, type) ==
    {n \in nodes : n.user_id = user_id /\ n.name = name /\ n.type = type}

Owns(user_id, id) == \E n \in nodes : n.id = id /\ n.user_id = user_id

Done(p, op) == pc[p] = "done" /\ call[p].op = op

\* C1: the table of nodes never holds two rows with the same
\* (user_id, name, type), whatever the interleaving of the UpsertNode calls.
C1_NodeKeyUnique ==
    \A n1, n2 \in nodes :
        (n1.user_id = n2.user_id /\ n1.name = n2.name /\ n1.type = n2.type)
            => n1.id = n2.id

\* C2: with the calls one after the other, every UpsertNode returns the id of
\* the one row that has its key: two calls with a key return the same id and
\* the second adds no row.
C2_SequentialUpsertSameId ==
    \A p \in Procs :
        Done(p, "node") =>
            /\ call[p].result = "ok"
            /\ {n.id : n \in RowsWithKey(call[p].user_id, call[p].name, call[p].type)}
                   = {call[p].id}

\* A second call with a key has returned the row of the first.
C2_Witness ==
    \E p \in Procs : Done(p, "node") /\ call[p].hit /\ call[p].result = "ok"

\* C3: the table of relations never holds two rows with the same
\* (user_id, source_node_id, target_node_id, type).
C3_RelationKeyUnique ==
    \A r1, r2 \in relations :
        (/\ r1.user_id = r2.user_id
         /\ r1.source_node_id = r2.source_node_id
         /\ r1.target_node_id = r2.target_node_id
         /\ r1.type = r2.type) => r1.id = r2.id

\* C4: node search, relation search and path search of a caller return only
\* nodes of that caller, for every request.
C4_TenantIsolation ==
    \A u \in Users :
        /\ \A q \in NodeSearchRequests : \A n \in SearchNodes(u, q) : Owns(u, n.id)
        /\ \A q \in RelationSearchRequests : \A r \in SearchRelations(u, q) :
              Owns(u, r.source_node.id) /\ Owns(u, r.target_node.id)
        /\ \A q \in PathSearchRequests : \A path \in SearchPaths(u, q) :
              \A i \in DOMAIN path.nodes : Owns(u, path.nodes[i].id)

\* C5: the query executed for a raw request returns only graph elements of
\* the caller.
C5_RawQueryOwnerOnly ==
    \A req \in RawRequests :
        \A e \in RunCypher(req.statement).records : e.user_id = req.user_id

\* C6: an UpsertRelation from a node to itself ends in a validation error and
\* writes nothing: no row and no relationship of the service joins a node to
\* itself.
C6_SelfLoopRejected ==
    /\ \A p \in Procs :
          (call[p].op = "relation" /\ call[p].source_node_id = call[p].target_node_id)
              => /\ pc[p] = "done"
                 /\ call[p].result = "validation_error"
                 /\ call[p].id = NoId
    /\ \A r \in relations : r.source_node_id # r.target_node_id
    /\ \A e \in DOMAIN neo4jEdges : e.id # NoId => e.source_id # e.target_id

\* A self pair on a node the caller owns was rejected.
C6_Witness ==
    \E p \in Procs :
        /\ Done(p, "relation")
        /\ call[p].source_node_id = call[p].target_node_id
        /\ Owns(call[p].user_id, call[p].source_node_id)
        /\ call[p].result = "validation_error"

\* C7 as stated: every UpsertRelation with an end that is not a node of the
\* caller ends in the not-found error and writes nothing.  The request whose
\* two ids are equal is refused by RelationCreate before the service looks
\* for the nodes, with the validation error.
C7_MissingEndNotFound ==
    \A p \in Procs :
        (/\ call[p].op = "relation"
         /\ \/ ~Owns(call[p].user_id, call[p].source_node_id)
            \/ ~Owns(call[p].user_id, call[p].target_node_id))
            => /\ pc[p] = "done"
               /\ call[p].result = "not_found"
               /\ call[p].id = NoId

\* C7, for two different ids: an UpsertRelation with an end that is not a
\* node of the caller ends in the not-found error, and the tables and the
\* graph hold no relation of the caller between the two ids.
C7_MissingEndOfDistinctPairNotFound ==
    \A p \in Procs :
        (/\ call[p].op = "relation"
         /\ call[p].source_node_id # call[p].target_node_id
         /\ \/ ~Owns(call[p].user_id, call[p].source_node_id)
            \/ ~Owns(call[p].user_id, call[p].target_node_id))
            => /\ pc[p] = "done"
               /\ call[p].result = "not_found"
               /\ call[p].id = NoId
               /\ \A r \in relations :
                     ~(/\ r.user_id = call[p].user_id
                       /\ r.source_node_id = call[p].source_node_id
                       /\ r.target_node_id = call[p].target_node_id)
               /\ \A e \in DOMAIN neo4jEdges :
                     ~(/\ e.user_id = call[p].user_id
                       /\ e.source_id = call[p].source_node_id
                       /\ e.target_id = call[p].target_node_id)

\* A request was refused whose source exists and belongs to another owner,
\* while its target is the caller's.
C7_Witness ==
    \E p \in Procs :
        /\ Done(p, "relation")
        /\ call[p].result = "not_found"
        /\ \E n \in nodes : n.id = call[p].source_node_id /\ n.user_id # call[p].user_id
        /\ Owns(call[p].user_id, call[p].target_node_id)

\* C8: the step of an UpsertNode that finds its key leaves the table of nodes
\* as it is, whatever payload the call carries.
C8_ExistingNodeUnchanged ==
    [][\A p \in Procs :
          (pc[p] = "idle" /\ pc'[p] = "done" /\ call'[p].op = "node" /\ call'[p].hit)
              => nodes' = nodes]_vars

\* A call found its key while carrying a payload other than the row's.
C8_Witness ==
    \E p \in Procs :
        /\ Done(p, "node")
        /\ call[p].hit
        /\ \E n \in nodes :
              /\ n.id = call[p].id
              /\ n.properties # call[p].payload.properties
              /\ n.confidence # call[p].payload.confidence
              /\ n.source # call[p].payload.source

\* C9: a call whose mirror write failed returns the created record, and the
\* row is in its table.
C9_MirrorFailureTolerated ==
    \A p \in Procs :
        (pc[p] = "done" /\ call[p].mirror = "failed")
            => /\ call[p].result = "ok"
               /\ call[p].op = "node" =>
                     \E n \in nodes : /\ n.id = call[p].id
                                      /\ n.user_id = call[p].user_id
                                      /\ n.name = call[p].name
                                      /\ n.type = call[p].type
               /\ call[p].op = "relation" =>
                     \E r \in relations : /\ r.id = call[p].id
                                          /\ r.user_id = call[p].user_id
                                          /\ r.source_node_id = call[p].source_node_id
                                          /\ r.target_node_id = call[p].target_node_id

\* An UpsertNode and an UpsertRelation have both returned after a failed
\* mirror write.
C9_Witness ==
    \E p, q \in Procs :
        /\ Done(p, "node") /\ call[p].mirror = "failed"
        /\ Done(q, "relation") /\ call[q].mirror = "failed"

\* C10: when the mirror write of a relation is performed, the mirror write of
\* each of its two nodes has been performed: none is still to come.
C10_RelationMirrorAfterNodes ==
    [][\A p \in Procs :
          (pc[p] = "r_mirror" /\ pc'[p] = "done")
              => \A q \in Procs :
                    pc[q] = "n_mirror" =>
                        call[q].id \notin {call[p].source_node_id,
                                           call[p].target_node_id}]_vars

\* C11: every row of the two tables is eventually in the graph: a node row
\* leads to an (:Entity) with its id, a relation row to a relationship with
\* its id.
C11_MirrorEventuallyConsistent ==
    /\ \A id \in NodeIds :
          (\E n \in nodes : n.id = id) ~> (\E e \in DOMAIN neo4jNodes : e.id = id)
    /\ \A id \in 1..MaxRelations :
          (\E r \in relations : r.id = id) ~> (\E e \in DOMAIN neo4jEdges : e.id = id)

\* C12: a step of node search, relation search, path search or a raw query
\* leaves the two tables and the graph as they are.
C12_QueriesReadOnly ==
    [][(\E p \in Procs :
          \/ \E u \in Users, q \in NodeSearchRequests : NodeSearch(p, u, q)
          \/ \E u \in Users, q \in RelationSearchRequests : RelationSearch(p, u, q)
          \/ \E u \in Users, q \in PathSearchRequests : PathSearch(p, u, q)
          \/ \E req \in RawRequests : RawQuery(p, req))
          => UNCHANGED <<nodes, relations, neo4jNodes, neo4jEdges>>]_vars

\* The counters a run over chunks returns when nothing but extraction fails:
\* what extract_entities and extract_relations give for every chunk.
RECURSIVE ExtractedEntities(_)
ExtractedEntities(chunks) ==
    IF chunks = <<>> THEN 0
    ELSE Len(extract_entities(Head(chunks))) + ExtractedEntities(Tail(chunks))

RECURSIVE ExtractedRelations(_)
ExtractedRelations(chunks) ==
    IF chunks = <<>> THEN 0
    ELSE Len(extract_relations(Head(chunks), extract_entities(Head(chunks))))
             + ExtractedRelations(Tail(chunks))

\* C13: a run in which extraction has raised for a chunk does not raise, goes
\* through the chunks that follow, and returns the counters of the chunks that
\* did not fail.
C13_ExtractionFailureContained ==
    (/\ doc.status # "none"
     /\ \E i \in DOMAIN doc.chunks : i < doc.i /\ ExtractionRaises(doc.chunks[i]))
        => /\ doc.status # "raised"
           /\ doc.status = "returned" =>
                 /\ doc.i = Len(doc.chunks) + 1
                 /\ doc.total_entities = ExtractedEntities(doc.chunks)
                 /\ doc.total_nodes = ExtractedEntities(doc.chunks)
                 /\ doc.total_relations = ExtractedRelations(doc.chunks)
                 /\ doc.total_edges = ExtractedRelations(doc.chunks)

\* C14: a run that has its chunks never ends in an error: whatever fails for
\* one entity or one relation is skipped.
C14_PersistenceFailureSkipped ==
    doc.status = "raised" => doc.error \in {"document_not_found", "no_chunks"}

\* C15: a run for a document the caller does not have, or one without chunks,
\* ends at once in the not-found error and leaves the tables and the graph as
\* they are; no call of an upsert is under way for it.
C15_NoChunksNotFound ==
    [][\A p \in Procs, user_id \in DocumentUsers, document_id \in DocumentIds,
          found \in BOOLEAN, chunks \in ChunkLists :
          (DocStart(p, user_id, document_id, found, chunks)
               /\ (~found \/ chunks = <<>>))
              => /\ doc'.status = "raised"
                 /\ doc'.error \in {"document_not_found", "no_chunks"}
                 /\ doc'.created_nodes = <<>>
                 /\ pc'[p] = "idle"
                 /\ UNCHANGED <<nodes, relations, neo4jNodes, neo4jEdges>>]_vars

\* A run for a document without chunks has ended in the error, with rows of
\* earlier runs in the tables.
C15_Witness ==
    /\ doc.status = "raised"
    /\ doc.error = "no_chunks"
    /\ nodes # {}

\* C16: GET /paths with max_length answers with no path of more than
\* max_length relationships.
C16_PathLengthBounded ==
    \A u \in Users, q \in PathRequests :
        \A path \in find_knowledge_paths(u, q) : path.length <= q.max_length

\* The graph joins two nodes by three relationships and not by fewer, and
\* GET /paths with max_length 2 answers with no path.
C16_Witness ==
    \E q \in PathRequests :
        /\ q.max_length = 2
        /\ \E path \in SearchPaths(1, q) : path.length = 3
        /\ find_knowledge_paths(1, q) = {}

\* The least number of relationships of a path of the graph between two
\* nodes, 0 when no path joins them.
Distance(source_id, target_id) ==
    LET lengths == {k \in 1..(MaxPathNodes - 1) :
                        PathsBetween(source_id, target_id, k) # {}}
    IN  IF lengths = {} THEN 0
        ELSE CHOOSE k \in lengths : \A k2 \in lengths : k <= k2

\* C17: when the graph joins two nodes of the caller by a path of at most
\* max_length relationships, GET /paths answers with a shortest path.
C17_ShortestPathWithinBound ==
    \A q \in PathRequests :
        (/\ q.source_node_id \in PathNodeIds
         /\ q.target_node_id \in PathNodeIds
         /\ q.source_node_id # q.target_node_id
         /\ Distance(q.source_node_id, q.target_node_id) \in 1..q.max_length)
            => /\ find_knowledge_paths(1, q) # {}
               /\ \A path \in find_knowledge_paths(1, q) :
                     path.length = Distance(q.source_node_id, q.target_node_id)

\* C19: a path search one of whose ends is no node of the caller in the graph
\* raises nothing and answers with no path.
C19_MissingEndpointEmpty ==
    \A u \in Users, q \in PathRequests :
        (\/ ~\E e \in DOMAIN neo4jNodes : e.id = q.source_node_id /\ e.user_id = u
         \/ ~\E e \in DOMAIN neo4jNodes : e.id = q.target_node_id /\ e.user_id = u)
            => /\ SearchPathsOutcome(q) = "ok"
               /\ find_knowledge_paths_status(q) = "ok"
               /\ SearchPaths(u, q) = {}

\* C18: node search with a limit answers with at most limit nodes.
C18_NodeSearchLimited ==
    \A u \in Users, q \in NodeSearchRequests, limit \in Limits :
        Cardinality(search_nodes_result(u, q, limit).nodes) <= limit

\* C20: the merge gives one candidate for every (lowercased text, type) of
\* its inputs; for a group of candidates of two methods it has the greatest
\* confidence of the group plus 0.1, at most 0.95, and the method hybrid; for
\* a group of one method it has the greatest confidence of the group and that
\* method.
C20_MergeOnePerGroup ==
    merge.called =>
        LET all == merge.rule_entities \o merge.jieba_entities
            keys == {MergeKey(all[i]) : i \in DOMAIN all}
            Group(key) == {all[i] : i \in {j \in DOMAIN all : MergeKey(all[j]) = key}}
            Best(key) == CHOOSE c \in {e.confidence : e \in Group(key)} :
                             \A e \in Group(key) : e.confidence <= c
            Methods(key) == {e.method : e \in Group(key)}
        IN  /\ Len(merge.result) = Cardinality(keys)
            /\ \A key \in keys :
                  \E i \in DOMAIN merge.result :
                      /\ MergeKey(merge.result[i]) = key
                      /\ IF Cardinality(Methods(key)) > 1
                         THEN /\ merge.result[i].confidence = Min(95, Best(key) + 10)
                              /\ merge.result[i].method = "hybrid"
                         ELSE /\ merge.result[i].confidence = Best(key)
                              /\ merge.result[i].method \in Methods(key)

\* C21: the relations _deduplicate_relations returns never hold two candidates
\* with the same unordered pair of lowercased endpoint texts and the same type,
\* and they are, in the order of the input, the candidates that no earlier
\* candidate of the input shares that pair and type with.  (Two coroutine
\* objects are never the same type.)
SameRelationIdentity(r1, r2) ==
    /\ r1.type # CoroutineObject
    /\ r1.type = r2.type
    /\ {LowerSeq(r1.source.text), LowerSeq(r1.target.text)}
           = {LowerSeq(r2.source.text), LowerSeq(r2.target.text)}
C21_RelationDedupUnordered ==
    (merge.called /\ merge.op = "dedup") =>
        LET input == merge.relations
            output == merge.result
            First(i) == ~\E j \in 1..(i - 1) : SameRelationIdentity(input[j], input[i])
        IN  /\ \A i, j \in DOMAIN output :
                  i < j => ~SameRelationIdentity(output[i], output[j])
            /\ output = FlattenSeq([i \in DOMAIN input |->
                                       IF First(i) THEN <<input[i]>> ELSE <<>>])
C21_Witness ==
    /\ merge.called
    /\ merge.op = "dedup"
    /\ Len(merge.relations) = 2
    /\ merge.relations[1].type = "use"
    /\ merge.relations[2].type = "use"
    /\ merge.relations[1].source.text = <<"A">>
    /\ merge.relations[1].target.text = <<"b">>
    /\ merge.relations[2].source.text = <<"b">>
    /\ merge.relations[2].target.text = <<"a">>
    /\ merge.result = <<merge.relations[1]>>

\* C22: a group of the merge whose candidates all come from one strategy keeps
\* the confidence and the strategy of its best candidate; only a group with
\* candidates of more than one strategy is raised and named hybrid.
C22_HybridOnlyAcrossStrategies ==
    (merge.called /\ merge.op = "merge") =>
        LET all == merge.rule_entities \o merge.jieba_entities
            Methods(key) == {all[i].method : i \in {j \in DOMAIN all : MergeKey(all[j]) = key}}
            Best(key) == MaxByConfidence(SelectSeq(all, LAMBDA e : MergeKey(e) = key))
        IN  \A i \in DOMAIN merge.result :
                LET key == MergeKey(merge.result[i])
                IN  IF Cardinality(Methods(key)) > 1
                    THEN merge.result[i].method = "hybrid"
                    ELSE /\ merge.result[i].confidence = Best(key).confidence
                         /\ merge.result[i].method = Best(key).method

\* C23: when one strategy raises inside the hybrid extraction, the result
\* holds a candidate for every (text, type) the other strategy found and for
\* nothing else.
C23_HybridDegradesToOtherStrategy ==
    (merge.called /\ merge.op = "hybrid" /\ merge.failed # "none") =>
        LET other == IF merge.failed = "jieba" THEN merge.rule_entities
                     ELSE merge.jieba_entities
        IN  {MergeKey(merge.result[i]) : i \in DOMAIN merge.result}
                = {MergeKey(other[i]) : i \in DOMAIN other}

\* C24: every relation the rules build for a chunk has confidence 0.7, its
\* source is the entity with the earlier span and its target the one with the
\* later span, and there is one such relation for every match of a relation
\* word with at least two entities whose spans lie within 50 characters of
\* it, none for the other matches.
C24_TriggerWindowRelation ==
    (doc.status = "running" /\ doc.stage # "chunk") =>
        LET content == doc.chunks[doc.i]
            output == extract_relations_by_rules(content, doc.entities)
            InWindow(i) ==
                {j \in DOMAIN doc.entities :
                    /\ Offset(content, i) - 50 <= doc.entities[j].start
                    /\ doc.entities[j].end <= Offset(content, i) + Width(content[i]) + 50}
            Matches == {i \in DOMAIN content :
                           content[i].kind = "keyword" /\ Cardinality(InWindow(i)) >= 2}
        IN  /\ Len(output) = Cardinality(Matches)
            /\ \A k \in DOMAIN output :
                  /\ output[k].confidence = 70
                  /\ output[k].source.start < output[k].target.start

\* The relations co-occurrence builds for the chunk being processed.
CooccurrenceOutput ==
    extract_relations_by_cooccurrence(doc.chunks[doc.i], doc.entities)

\* C25: co-occurrence gives a relation with confidence 0.5 for every pair of
\* entities whose spans lie in the same sentence of the chunk, also when the
\* text of the sentence occurs earlier in the chunk, with that sentence as
\* context, and none for a pair of entities of different sentences.
C25_CooccurrencePerSentence ==
    (doc.status = "running" /\ doc.stage # "chunk") =>
        LET content == doc.chunks[doc.i]
            \* the sentence a span lies in: the stops before its start
            SentenceAt(e) ==
                Cardinality({i \in DOMAIN content :
                                content[i].kind = "stop" /\ Offset(content, i) < e.start}) + 1
            Joined(e1, e2) ==
                \E k \in DOMAIN CooccurrenceOutput :
                    /\ {CooccurrenceOutput[k].source, CooccurrenceOutput[k].target} = {e1, e2}
                    /\ CooccurrenceOutput[k].confidence = 50
                    /\ CooccurrenceOutput[k].context = Sentences(content)[SentenceAt(e1)]
        IN  /\ \A i, j \in DOMAIN doc.entities :
                  (i < j /\ SentenceAt(doc.entities[i]) = SentenceAt(doc.entities[j]))
                      => Joined(doc.entities[i], doc.entities[j])
            /\ \A k \in DOMAIN CooccurrenceOutput :
                  SentenceAt(CooccurrenceOutput[k].source)
                      = SentenceAt(CooccurrenceOutput[k].target)

\* The row of the nodes table with an id.
NodeRow(id) == CHOOSE n \in nodes : n.id = id

C30_RelationLinksCandidateEndpoints ==
    (/\ doc.status = "running" /\ doc.stage = "relation_call"
     /\ pc[doc.proc] = "done" /\ call[doc.proc].result = "ok") =>
        LET relation_data == doc.relations[doc.k]
            source_node == NodeRow(call[doc.proc].source_node_id)
            target_node == NodeRow(call[doc.proc].target_node_id)
        IN  /\ source_node.name = relation_data.source.text
            /\ source_node.type = relation_data.source.type
            /\ target_node.name = relation_data.target.text
            /\ target_node.type = relation_data.target.type

\* C27: every row of the relations table joins two different nodes, and both
\* are rows of the nodes table with the user_id of the relation.
C27_RelationEndpointsOwned ==
    \A r \in relations :
        /\ r.source_node_id # r.target_node_id
        /\ Owns(r.user_id, r.source_node_id)
        /\ Owns(r.user_id, r.target_node_id)

\* A relation has been stored while another owner has a node.
C27_Witness ==
    \E r \in relations : \E n \in nodes : n.user_id # r.user_id

\* C28: the graph holds at most one (:Entity) for an id of the nodes table and
\* at most one relationship for an id of the relations table, each with the
\* id and the user_id of its row, and nothing that has no row.
C28_MirrorOnePerRow ==
    /\ \A e \in DOMAIN neo4jNodes :
          /\ neo4jNodes[e] <= 1
          /\ \A e2 \in DOMAIN neo4jNodes : e2.id = e.id => e2 = e
          /\ \E n \in nodes : n.id = e.id /\ n.user_id = e.user_id
    /\ \A e \in DOMAIN neo4jEdges :
          /\ neo4jEdges[e] <= 1
          /\ \A e2 \in DOMAIN neo4jEdges : e2.id = e.id => e2 = e
          /\ \E r \in relations : r.id = e.id /\ r.user_id = e.user_id

\* C29: when an upsert of process-document returns, total_nodes grows by one
\* if the upsert inserted a row of the nodes table and not otherwise, and
\* total_edges grows by one if it inserted a row of the relations table and
\* not otherwise; a run that inserts nothing returns both as 0.
C29_CountersCountInsertions ==
    [][\A p \in Procs :
          /\ DocEntityReturn(p) =>
                doc'.total_nodes = doc.total_nodes
                    + (IF call[p].result = "ok" /\ ~call[p].hit THEN 1 ELSE 0)
          /\ DocRelationReturn(p) =>
                doc'.total_edges = doc.total_edges
                    + (IF call[p].result = "ok" /\ ~call[p].hit THEN 1 ELSE 0)]_vars

====
